---- MODULE Spec2Model ----
(***************************************************************************)
(* Model of scripts/validate.mjs, the bundle validator of the              *)
(* typescript-best-practices plugin.  Strings are sequences of one-        *)
(* character strings, so that the regular expressions and the string       *)
(* searches of the script are computed character by character.             *)
(***************************************************************************)
EXTENDS Integers, Sequences, FiniteSets

VARIABLES
    disk,        \* the bundle on disk under process.cwd(); never written
    pc,          \* position of the run inside validate.mjs
    pluginJson,  \* const pluginJson (validate.mjs:52)
    errors,      \* const errors = [] (validate.mjs:8)
    warnings,    \* const warnings = [] (validate.mjs:9)
    out,         \* lines written with console.log
    err,         \* lines written with console.error
    exitCode,    \* exit status of the process, NoExit while it runs
    fsCalls,     \* the node:fs calls made so far, in order
    content,     \* argument of parseFrontmatter
    block,       \* const block (validate.mjs:42)
    fm           \* value returned by parseFrontmatter

vars == <<disk, pc, pluginJson, errors, warnings, out, err, exitCode, fsCalls,
          content, block, fm>>

runVars == <<disk, pluginJson, errors, warnings, out, err, exitCode, fsCalls>>
fmVars == <<content, block, fm>>

----------------------------------------------------------------------------
(* Bounds of the model *)

\* longest directory listing
MaxEntries == 2
\* longest file content (in characters, before CRLF expansion) of SpecFM
MaxLen == 9
\* longest enumerated line of a frontmatter block of SpecKV
MaxLineLen == 4

----------------------------------------------------------------------------
(* Characters and strings *)

LF == "\n"
CR == "\r"

Lower == {"a","b","c","d","e","f","g","h","i","j","k","l","m",
          "n","o","p","q","r","s","t","u","v","w","x","y","z"}
Upper == {"A","B","C","D","E","F","G","H","I","J","K","L","M",
          "N","O","P","Q","R","S","T","U","V","W","X","Y","Z"}
Digit == {"0","1","2","3","4","5","6","7","8","9"}

\* \w of a JavaScript regular expression
WordChar == Lower \cup Upper \cup Digit \cup {"_"}
\* \s, restricted to the white space the model's strings contain
SpaceChar == {" ", "\t", LF, CR}
\* . of a JavaScript regular expression (no s flag): no line terminator
DotChar(c) == c \notin {LF, CR}

\* String.prototype.startsWith
startsWith(s, p) == Len(s) >= Len(p) /\ SubSeq(s, 1, Len(p)) = p

\* String.prototype.endsWith
endsWith(s, p) ==
    Len(s) >= Len(p) /\ SubSeq(s, Len(s) - Len(p) + 1, Len(s)) = p

\* String.prototype.indexOf(p, from), positions counted from 0
indexOf(s, p, from) ==
    LET hits == {i \in from..(Len(s) - Len(p)) : SubSeq(s, i + 1, i + Len(p)) = p}
    IN  IF hits = {} THEN -1
        ELSE CHOOSE i \in hits : \A j \in hits : i <= j

\* String.prototype.slice(a, b), positions counted from 0
slice(s, a, b) == SubSeq(s, a + 1, b)

\* content.replace(/\r\n/g, "\n")
RECURSIVE replaceCRLF(_)
replaceCRLF(s) ==
    IF s = <<>> THEN <<>>
    ELSE IF Len(s) >= 2 /\ s[1] = CR /\ s[2] = LF
         THEN <<LF>> \o replaceCRLF(SubSeq(s, 3, Len(s)))
         ELSE <<s[1]>> \o replaceCRLF(Tail(s))

\* String.prototype.split("\n"): the pieces between the line feeds
RECURSIVE split(_)
split(s) ==
    LET i == indexOf(s, <<LF>>, 0)
    IN  IF i = -1 THEN <<s>>
        ELSE <<slice(s, 0, i)>> \o split(SubSeq(s, i + 2, Len(s)))

\* String.prototype.trim
RECURSIVE trimStart(_)
trimStart(s) ==
    IF s # <<>> /\ s[1] \in SpaceChar THEN trimStart(Tail(s)) ELSE s

RECURSIVE trimEnd(_)
trimEnd(s) ==
    IF s # <<>> /\ s[Len(s)] \in SpaceChar
    THEN trimEnd(SubSeq(s, 1, Len(s) - 1)) ELSE s

trim(s) == trimEnd(trimStart(s))

----------------------------------------------------------------------------
(* parseFrontmatter, validate.mjs:36-49 *)

Dashes == <<"-", "-", "-">>
Opening == Dashes \o <<LF>>
Closing == <<LF>> \o Dashes \o <<LF>>

NoMatch == [matched |-> FALSE]

\* length of the longest prefix of s made of characters of [\w-]
RECURSIVE keyRun(_)
keyRun(s) ==
    IF s # <<>> /\ s[1] \in WordChar \cup {"-"} THEN 1 + keyRun(Tail(s)) ELSE 0

\* length of the longest prefix of s made of white space
RECURSIVE spaceRun(_)
spaceRun(s) ==
    IF s # <<>> /\ s[1] \in SpaceChar THEN 1 + spaceRun(Tail(s)) ELSE 0

\* line.match(/^(\w[\w-]*):\s*(.+)$/): the key is the longest run of [\w-]
\* (it must start with \w and be followed by a colon); \s* is greedy and
\* gives characters back until (.+) has at least one character to take
lineMatch(line) ==
    LET k == keyRun(line)
        rest == SubSeq(line, k + 2, Len(line))
        w == spaceRun(rest)
        taken == IF w = Len(rest) THEN w - 1 ELSE w
        group2 == SubSeq(rest, taken + 1, Len(rest))
    IN  IF /\ line # <<>>
           /\ line[1] \in WordChar
           /\ Len(line) > k
           /\ line[k + 1] = ":"
           /\ rest # <<>>
           /\ \A i \in 1..Len(group2) : DotChar(group2[i])
        THEN [matched |-> TRUE, key |-> SubSeq(line, 1, k), value |-> group2]
        ELSE NoMatch

K_proto == <<"_", "_", "p", "r", "o", "t", "o", "_", "_">>

\* fields[key] = value on the plain object of validate.mjs:43: the key
\* __proto__ is the accessor inherited from Object.prototype, whose setter
\* ignores a string, so that the assignment adds no property
setField(fields, key, value) ==
    IF key = K_proto THEN fields
    ELSE [k \in (DOMAIN fields) \cup {key} |-> IF k = key THEN value ELSE fields[k]]

\* parseFrontmatter returned null
NoFrontmatter == [found |-> FALSE]

\* validate.mjs:37-42: the block between the delimiters, or null
frontmatterBlock(c) ==
    LET normalized == replaceCRLF(c)
        closing == indexOf(normalized, Closing, 4)
    IN  IF ~startsWith(normalized, Opening) THEN NoFrontmatter
        ELSE IF closing = -1 THEN NoFrontmatter
        ELSE [found |-> TRUE, text |-> slice(normalized, 4, closing)]

\* validate.mjs:43-48: the loop over the lines of the block
RECURSIVE blockFields(_, _)
blockFields(lines, fields) ==
    IF lines = <<>> THEN fields
    ELSE LET m == lineMatch(Head(lines))
         IN  blockFields(Tail(lines),
                         IF m.matched THEN setField(fields, m.key, trim(m.value))
                         ELSE fields)

EmptyFields == [k \in {} |-> <<>>]

parseFrontmatter(c) ==
    LET b == frontmatterBlock(c)
    IN  IF ~b.found THEN NoFrontmatter
        ELSE [found |-> TRUE, fields |-> blockFields(split(b.text), EmptyFields)]

\* !fm.key : the key is absent or its value is the empty string
lacks(f, key) == key \notin DOMAIN f.fields \/ f.fields[key] = <<>>

----------------------------------------------------------------------------
(* JavaScript values of the manifest *)

Undefined == [type |-> "undefined"]
Null == [type |-> "null"]
Str(s) == [type |-> "string", str |-> s]
Num(n) == [type |-> "number", num |-> n]
PlainObject == [type |-> "object"]

DigitChars == <<"0", "1", "2", "3", "4", "5", "6", "7", "8", "9">>

\* Number.prototype.toString of a natural number
RECURSIVE decimal(_)
decimal(n) ==
    IF n < 10 THEN <<DigitChars[n + 1]>>
    ELSE decimal(n \div 10) \o <<DigitChars[(n % 10) + 1]>>

\* ToString, as RegExp.prototype.test and template literals apply it
ToString(v) ==
    CASE v.type = "undefined" -> <<"u", "n", "d", "e", "f", "i", "n", "e", "d">>
      [] v.type = "null" -> <<"n", "u", "l", "l">>
      [] v.type = "string" -> v.str
      [] v.type = "number" -> decimal(v.num)
      [] v.type = "object" ->
            <<"[", "o", "b", "j", "e", "c", "t", " ",
              "O", "b", "j", "e", "c", "t", "]">>

\* ToBoolean
truthy(v) ==
    CASE v.type = "undefined" -> FALSE
      [] v.type = "null" -> FALSE
      [] v.type = "string" -> v.str # <<>>
      [] v.type = "number" -> v.num # 0
      [] v.type = "object" -> TRUE
      [] v.type = "manifest" -> TRUE

\* /^[a-z0-9](?:[a-z0-9.-]*[a-z0-9])?$/ on a string
matchesNamePattern(s) ==
    /\ s # <<>>
    /\ s[1] \in Lower \cup Digit
    /\ s[Len(s)] \in Lower \cup Digit
    /\ \A i \in 1..Len(s) : s[i] \in Lower \cup Digit \cup {".", "-"}

\* as namePatternTest, with every value that is not a string rejected
namePatternTest_StringsOnly(v) == v.type = "string" /\ matchesNamePattern(v.str)

\* namePattern.test(v), validate.mjs:58-59: test converts its argument
\* to a string first
namePatternTest(v) == matchesNamePattern(ToString(v))

----------------------------------------------------------------------------
(* The bundle on disk *)

NoExit == "running"
Idle == [kind |-> "idle"]

K_name == <<"n", "a", "m", "e">>
K_description == <<"d", "e", "s", "c", "r", "i", "p", "t", "i", "o", "n">>

\* validate.mjs:63
RequiredFields == <<"name", "description", "version", "author", "license">>

\* the lines of a text file, each ended by a line feed
RECURSIVE Text(_)
Text(lines) ==
    IF lines = <<>> THEN <<>> ELSE Head(lines) \o <<LF>> \o Text(Tail(lines))

L_name == K_name \o <<":", " ", "a">>
L_description == K_description \o <<":", " ", "b">>
L_descriptionKey == K_description \o <<":">>
L_continuation == <<" ", " ", "b", " ", "c">>
L_metadata == <<"m", "e", "t", "a", "d", "a", "t", "a", ":">>
L_tags == <<" ", " ", "t", "a", "g", "s", ":", " ", "t">>
L_other == <<"t", "a", "g", "s", ":", " ", "t">>
L_title == <<"#", " ", "T">>

\* name and description on one line each, as in unnamed/part_000:1-4
FmFull == Text(<<Dashes, L_name, L_description, Dashes, L_title>>)
\* the description on the lines after its key, as in SKILL.md:1-8
FmMultiline ==
    Text(<<Dashes, L_name, L_descriptionKey, L_continuation,
           L_metadata, L_tags, Dashes, L_title>>)
FmNoName == Text(<<Dashes, L_description, Dashes, L_title>>)
FmNoDescription == Text(<<Dashes, L_name, Dashes, L_title>>)
FmNoKeys == Text(<<Dashes, L_other, Dashes, L_title>>)
NoFm == Text(<<L_title>>)

FileContents == {FmFull, FmMultiline, FmNoName, FmNoDescription, FmNoKeys, NoFm}

\* names of the entries of a listing, by position
BaseNames == <<"p", "q", "r", "s">>
ExtMd == <<".", "m", "d">>
ExtMdc == <<".", "m", "d", "c">>
ExtTxt == <<".", "t", "x", "t">>

\* skills/<name>: SKILL.md is absent (ENOENT), a directory (EISDIR) or a file
SkillEntriesAt(i) ==
    {[name |-> <<BaseNames[i]>>, file |-> "ENOENT", content |-> <<>>],
     [name |-> <<BaseNames[i]>>, file |-> "EISDIR", content |-> <<>>]}
    \cup {[name |-> <<BaseNames[i]>>, file |-> "file", content |-> c] :
             c \in FileContents}

\* rules/<name>, commands/<name>, agents/<name>: a file, or a directory
\* whose name ends like a file's (EISDIR)
FileEntriesAt(i) ==
    {[name |-> <<BaseNames[i]>> \o ExtMd, file |-> "file", content |-> c] :
        c \in FileContents}
    \cup {[name |-> <<BaseNames[i]>> \o ExtMd, file |-> "EISDIR", content |-> <<>>],
          [name |-> <<BaseNames[i]>> \o ExtMdc, file |-> "file", content |-> FmFull],
          [name |-> <<BaseNames[i]>> \o ExtMdc, file |-> "file", content |-> NoFm],
          [name |-> <<BaseNames[i]>> \o ExtTxt, file |-> "file", content |-> NoFm]}

\* the listings of n entries, the entry at position i named BaseNames[i]
EntriesAt(dir, i) == IF dir = "skills" THEN SkillEntriesAt(i) ELSE FileEntriesAt(i)

RECURSIVE ListingsOfLen(_, _)
ListingsOfLen(dir, n) ==
    IF n = 0 THEN {<<>>}
    ELSE {Append(l, e) : l \in ListingsOfLen(dir, n - 1), e \in EntriesAt(dir, n)}

Listings(dir) == UNION {ListingsOfLen(dir, n) : n \in 0..MaxEntries}

\* a subdirectory of the bundle: absent (ENOENT), not a directory that can
\* be listed (ENOTDIR), or a directory with its listing
Absent == [kind |-> "ENOENT", entries |-> <<>>]
Unlistable == [kind |-> "ENOTDIR", entries |-> <<>>]
Directory(l) == [kind |-> "dir", entries |-> l]

Directories(dir) ==
    {Absent, Unlistable} \cup {Directory(l) : l \in Listings(dir)}

MyPlugin == <<"M", "y", "_", "P", "l", "u", "g", "i", "n">>

NameValues ==
    {Undefined, Null, Num(0), Num(123), PlainObject,
     Str(<<>>), Str(MyPlugin), Str(<<"a", "-">>), Str(<<"m", "y", "-", "p">>)}

FieldValues == {Undefined, Str(<<"x">>)}

LogoValues == {Undefined, Str(<<"l", ".", "p", "n", "g">>)}

ManifestObjects ==
    [type : {"manifest"}, name : NameValues, description : FieldValues,
     version : FieldValues, author : FieldValues, license : FieldValues,
     logo : LogoValues]

\* .cursor-plugin/plugin.json: absent, unreadable, not JSON, or JSON text
\* with the value it parses to
ManifestFiles ==
    {[kind |-> k, value |-> Undefined] : k \in {"ENOENT", "EACCES", "SyntaxError"}}
    \cup {[kind |-> "json", value |-> v] : v \in {Null} \cup ManifestObjects}

Conformant ==
    [type |-> "manifest", name |-> Str(<<"m", "y", "-", "p">>),
     description |-> Str(<<"x">>), version |-> Str(<<"x">>),
     author |-> Str(<<"x">>), license |-> Str(<<"x">>), logo |-> Undefined]

----------------------------------------------------------------------------
(* Messages, output lines and file system calls *)

\* a message of errors or warnings: the text with its interpolated parts
Msg(m, entry, field, text) ==
    [msg |-> m, entry |-> entry, field |-> field, text |-> text]
NoMsg == Msg("", <<>>, "", <<>>)

\* a line of console.log or console.error
Line(l, n, m) == [line |-> l, n |-> n, msg |-> m]

\* a call of node:fs
Call(op, dir, name) == [op |-> op, dir |-> dir, name |-> name]

\* validate.mjs:11-13
error(list, m) == Append(list, m)
\* validate.mjs:14-16
warn(list, m) == Append(list, m)

\* validate.mjs:18-25: fs.access fails for a path that is not there
exists(kind) == kind # "ENOENT"

\* validate.mjs:27-34: null when the file cannot be read or parsed
readJson(file) == IF file.kind = "json" THEN file.value ELSE Null

\* pluginJson[field]
prop(v, field) == IF v.type = "manifest" THEN v[field] ELSE Undefined

----------------------------------------------------------------------------
(* validatePlugin, validate.mjs:51-161 *)

\* as afterReadJson, without the return of validate.mjs:55
afterReadJson_NoReturn(pj) == "name"

\* validate.mjs:53: the run ends here when readJson returned nothing
afterReadJson(pj) == IF ~truthy(pj) THEN "returned" ELSE "name"

\* validate.mjs:58-61
nameErrors(pj) ==
    IF ~namePatternTest(prop(pj, "name"))
    THEN <<Msg("plugin.json name doesn't match pattern", <<>>, "",
               ToString(prop(pj, "name")))>>
    ELSE <<>>

\* validate.mjs:63-67
RECURSIVE fieldErrors(_, _)
fieldErrors(pj, i) ==
    IF i > Len(RequiredFields) THEN <<>>
    ELSE (IF ~truthy(prop(pj, RequiredFields[i]))
          THEN <<Msg("plugin.json missing required field", <<>>,
                     RequiredFields[i], <<>>)>>
          ELSE <<>>) \o fieldErrors(pj, i + 1)

\* state of a loop over a listing: what it recorded, the calls it made and
\* whether a call threw
Acc(es, calls) == [errors |-> es, fsCalls |-> calls, thrown |-> FALSE]

\* validate.mjs:86-91
skillErrors(name, f) ==
    IF ~f.found
    THEN <<Msg("Skill SKILL.md is missing frontmatter", name, "", <<>>)>>
    ELSE (IF lacks(f, K_name)
          THEN <<Msg("Skill SKILL.md missing name in frontmatter", name, "", <<>>)>>
          ELSE <<>>)
         \o (IF lacks(f, K_description)
             THEN <<Msg("Skill SKILL.md missing description in frontmatter",
                        name, "", <<>>)>>
             ELSE <<>>)

\* validate.mjs:78-92
RECURSIVE skillsLoop(_, _, _)
skillsLoop(skills, i, acc) ==
    IF i > Len(skills) \/ acc.thrown THEN acc
    ELSE LET skill == skills[i]
             accessed == Append(acc.fsCalls, Call("access", "skills", skill.name))
             read == Append(accessed, Call("readFile", "skills", skill.name))
         IN  IF ~exists(skill.file)
             THEN skillsLoop(skills, i + 1,
                    Acc(error(acc.errors,
                              Msg("Skill is missing SKILL.md", skill.name, "", <<>>)),
                        accessed))
             ELSE IF skill.file # "file"
             THEN [errors |-> acc.errors, fsCalls |-> read, thrown |-> TRUE]
             ELSE skillsLoop(skills, i + 1,
                    Acc(acc.errors \o skillErrors(skill.name, parseFrontmatter(skill.content)),
                        read))

\* validate.mjs:100-102
ruleFilter(f) == endsWith(f, ExtMdc) \/ endsWith(f, ExtMd)
\* validate.mjs:115 and validate.mjs:131
mdFilter(f) == endsWith(f, ExtMd)

\* Array.prototype.filter over a listing, by file name
RECURSIVE filter(_, _)
filter(l, dir) ==
    IF l = <<>> THEN <<>>
    ELSE (IF (IF dir = "rules" THEN ruleFilter(Head(l).name)
              ELSE mdFilter(Head(l).name))
          THEN <<Head(l)>> ELSE <<>>) \o filter(Tail(l), dir)

\* validate.mjs:105-108
ruleErrors(name, f) ==
    IF ~f.found \/ lacks(f, K_description)
    THEN <<Msg("Rule missing description in frontmatter", name, "", <<>>)>>
    ELSE <<>>

\* validate.mjs:118-124
commandErrors(name, f) ==
    IF ~f.found
    THEN <<Msg("Command missing frontmatter", name, "", <<>>)>>
    ELSE (IF lacks(f, K_name)
          THEN <<Msg("Command missing name in frontmatter", name, "", <<>>)>>
          ELSE <<>>)
         \o (IF lacks(f, K_description)
             THEN <<Msg("Command missing description in frontmatter", name, "", <<>>)>>
             ELSE <<>>)

\* validate.mjs:134-140
agentErrors(name, f) ==
    IF ~f.found
    THEN <<Msg("Agent missing frontmatter", name, "", <<>>)>>
    ELSE (IF lacks(f, K_name)
          THEN <<Msg("Agent missing name in frontmatter", name, "", <<>>)>>
          ELSE <<>>)
         \o (IF lacks(f, K_description)
             THEN <<Msg("Agent missing description in frontmatter", name, "", <<>>)>>
             ELSE <<>>)

entryErrors(dir, name, f) ==
    CASE dir = "rules" -> ruleErrors(name, f)
      [] dir = "commands" -> commandErrors(name, f)
      [] dir = "agents" -> agentErrors(name, f)

\* validate.mjs:103-109, validate.mjs:116-125, validate.mjs:132-141
RECURSIVE filesLoop(_, _, _, _)
filesLoop(dir, files, i, acc) ==
    IF i > Len(files) \/ acc.thrown THEN acc
    ELSE LET file == files[i]
             read == Append(acc.fsCalls, Call("readFile", dir, file.name))
         IN  IF file.file # "file"
             THEN [errors |-> acc.errors, fsCalls |-> read, thrown |-> TRUE]
             ELSE filesLoop(dir, files, i + 1,
                    Acc(acc.errors \o entryErrors(dir, file.name, parseFrontmatter(file.content)),
                        read))

\* validate.mjs:147-158: the blocks of the report
RECURSIVE items(_, _)
items(l, list) ==
    IF list = <<>> THEN <<>>
    ELSE <<Line(l, 0, Head(list))>> \o items(l, Tail(list))

Blank == Line("", 0, NoMsg)

warningsBlock(ws) ==
    IF Len(ws) > 0
    THEN <<Line("Warnings", Len(ws), NoMsg)>> \o items("warning", ws) \o <<Blank>>
    ELSE <<>>

errorsBlock(es) ==
    IF Len(es) > 0
    THEN <<Line("Errors", Len(es), NoMsg)>> \o items("error", es) \o <<Blank>>
    ELSE <<>>

\* the process starts: validate.mjs:7-9
RunInit(d) ==
    /\ disk = d
    /\ pc = "start"
    /\ pluginJson = Idle
    /\ errors = <<>>
    /\ warnings = <<>>
    /\ out = <<>>
    /\ err = <<>>
    /\ exitCode = NoExit
    /\ fsCalls = <<>>
    /\ content = <<>>
    /\ block = Idle
    /\ fm = Idle

\* validate.mjs:52-56
ReadManifest ==
    /\ pc = "start"
    /\ fsCalls' = Append(fsCalls, Call("readFile", ".cursor-plugin", <<>>))
    /\ pluginJson' = readJson(disk.manifest)
    /\ pc' = afterReadJson(pluginJson')
    /\ errors' = IF ~truthy(pluginJson')
                 THEN error(errors, Msg(".cursor-plugin/plugin.json is missing or invalid",
                                        <<>>, "", <<>>))
                 ELSE errors
    /\ UNCHANGED <<disk, warnings, out, err, exitCode, fmVars>>

\* validate.mjs:58-61
CheckName ==
    /\ pc = "name"
    /\ errors' = errors \o nameErrors(pluginJson)
    /\ pc' = "fields"
    /\ UNCHANGED <<disk, pluginJson, warnings, out, err, exitCode, fsCalls, fmVars>>

\* validate.mjs:63-69
CheckFields ==
    /\ pc = "fields"
    /\ errors' = errors \o fieldErrors(pluginJson, 1)
    /\ out' = Append(out, Line("Validating plugin", 0,
                               Msg("", <<>>, "", ToString(prop(pluginJson, "name")))))
    /\ pc' = "logo"
    /\ UNCHANGED <<disk, pluginJson, warnings, err, exitCode, fsCalls, fmVars>>

\* validate.mjs:71-73
CheckLogo ==
    /\ pc = "logo"
    /\ IF truthy(prop(pluginJson, "logo"))
       THEN /\ fsCalls' = Append(fsCalls, Call("access", "logo", <<>>))
            /\ warnings' = IF ~exists(disk.logo)
                           THEN warn(warnings, Msg("Logo file not found", <<>>, "",
                                                   ToString(prop(pluginJson, "logo"))))
                           ELSE warnings
       ELSE UNCHANGED <<fsCalls, warnings>>
    /\ pc' = "skills"
    /\ UNCHANGED <<disk, pluginJson, errors, out, err, exitCode, fmVars>>

\* as skillsMissing, with skills/ optional like the other subdirectories
skillsMissing_Silent(list) == list

\* validate.mjs:94-96
skillsMissing(list) == error(list, Msg("skills/ directory is missing", <<>>, "", <<>>))

\* validate.mjs:75-96
CheckSkills ==
    /\ pc = "skills"
    /\ LET accessed == Append(fsCalls, Call("access", "skills", <<>>))
           listed == Append(accessed, Call("readdir", "skills", <<>>))
           acc == skillsLoop(disk.skills.entries, 1, Acc(errors, listed))
       IN  IF ~exists(disk.skills.kind)
           THEN /\ errors' = skillsMissing(errors)
                /\ fsCalls' = accessed
                /\ out' = out
                /\ pc' = "rules"
           ELSE IF disk.skills.kind # "dir"
           THEN /\ fsCalls' = listed
                /\ pc' = "rejected"
                /\ UNCHANGED <<errors, out>>
           ELSE /\ errors' = acc.errors
                /\ fsCalls' = acc.fsCalls
                /\ IF acc.thrown
                   THEN pc' = "rejected" /\ out' = out
                   ELSE /\ pc' = "rules"
                        /\ out' = Append(out, Line("Skills found",
                                                   Len(disk.skills.entries), NoMsg))
    /\ UNCHANGED <<disk, pluginJson, warnings, err, exitCode, fmVars>>

\* the block of an optional subdirectory: validate.mjs:98-111 (rules),
\* validate.mjs:113-127 (commands), validate.mjs:129-143 (agents)
CheckFiles(dir, found, next) ==
    /\ pc = dir
    /\ LET accessed == Append(fsCalls, Call("access", dir, <<>>))
           listed == Append(accessed, Call("readdir", dir, <<>>))
           files == filter(disk[dir].entries, dir)
           acc == filesLoop(dir, files, 1, Acc(errors, listed))
       IN  IF ~exists(disk[dir].kind)
           THEN /\ fsCalls' = accessed
                /\ pc' = next
                /\ UNCHANGED <<errors, out>>
           ELSE IF disk[dir].kind # "dir"
           THEN /\ fsCalls' = listed
                /\ pc' = "rejected"
                /\ UNCHANGED <<errors, out>>
           ELSE /\ errors' = acc.errors
                /\ fsCalls' = acc.fsCalls
                /\ IF acc.thrown
                   THEN pc' = "rejected" /\ out' = out
                   ELSE /\ pc' = next
                        /\ out' = Append(out, Line(found, Len(files), NoMsg))
    /\ UNCHANGED <<disk, pluginJson, warnings, err, exitCode, fmVars>>

\* validate.mjs:98-111
CheckRules == CheckFiles("rules", "Rules found", "commands")
\* validate.mjs:113-127
CheckCommands == CheckFiles("commands", "Commands found", "agents")
\* validate.mjs:129-143
CheckAgents == CheckFiles("agents", "Agents found", "report")

\* validate.mjs:145-161
Report ==
    /\ pc = "report"
    /\ IF Len(errors) > 0
       THEN /\ out' = out \o <<Blank>> \o warningsBlock(warnings) \o errorsBlock(errors)
            /\ exitCode' = 1
            /\ pc' = "exited"
       ELSE /\ out' = out \o <<Blank>> \o warningsBlock(warnings)
                      \o <<Line("Plugin validation passed", 0, NoMsg)>>
            /\ exitCode' = exitCode
            /\ pc' = "returned"
    /\ UNCHANGED <<disk, pluginJson, errors, warnings, err, fsCalls, fmVars>>

\* as Catch, without the process.exit(1) of validate.mjs:165
Catch_NoExit ==
    /\ pc = "rejected"
    /\ err' = Append(err, Line("Validation failed:", 0, NoMsg))
    /\ exitCode' = 0
    /\ pc' = "exited"
    /\ UNCHANGED <<disk, pluginJson, errors, warnings, out, fsCalls, fmVars>>

\* validate.mjs:163-166: the promise of validatePlugin was rejected
Catch ==
    /\ pc = "rejected"
    /\ err' = Append(err, Line("Validation failed:", 0, NoMsg))
    /\ exitCode' = 1
    /\ pc' = "exited"
    /\ UNCHANGED <<disk, pluginJson, errors, warnings, out, fsCalls, fmVars>>

\* validate.mjs:163: the promise was fulfilled and nothing is left to run,
\* so node ends the process with status 0
Fulfilled ==
    /\ pc = "returned"
    /\ exitCode' = 0
    /\ pc' = "exited"
    /\ UNCHANGED <<disk, pluginJson, errors, warnings, out, err, fsCalls, fmVars>>

Next ==
    \/ ReadManifest
    \/ CheckName
    \/ CheckFields
    \/ CheckLogo
    \/ CheckSkills
    \/ CheckRules
    \/ CheckCommands
    \/ CheckAgents
    \/ Report
    \/ Catch
    \/ Fulfilled

----------------------------------------------------------------------------
(* The bundles a run starts from.  One part of the bundle (the manifest  *)
(* with its logo, or one of the four subdirectories) ranges over all its *)
(* modelled values while the other parts range over a few.               *)

Parts == {"manifest", "skills", "rules", "commands", "agents"}

WithLogo == [Conformant EXCEPT !.logo = Str(<<"l", ".", "p", "n", "g">>)]

\* the manifest file and whether the logo file is there
AllManifests ==
    {[manifest |-> m, logo |-> l] :
        m \in ManifestFiles, l \in {"ENOENT", "file"}}

FewManifests ==
    {[manifest |-> [kind |-> "json", value |-> Conformant], logo |-> "ENOENT"],
     [manifest |-> [kind |-> "json", value |-> WithLogo], logo |-> "ENOENT"]}

OneSkill == <<[name |-> <<BaseNames[1]>>, file |-> "file", content |-> FmFull]>>
OneFile == <<[name |-> <<BaseNames[1]>> \o ExtMd, file |-> "file", content |-> FmFull]>>

Bundle(m, s, r, c, a) ==
    [manifest |-> m.manifest, logo |-> m.logo,
     skills |-> s, rules |-> r, commands |-> c, agents |-> a]

ManifestsOf(part) == IF part = "manifest" THEN AllManifests ELSE FewManifests

SkillsOf(part) ==
    IF part = "skills" THEN Directories("skills")
    ELSE {Absent, Directory(OneSkill)}

FilesOf(part, dir) ==
    IF part = dir THEN Directories(dir)
    ELSE {Absent, Directory(OneFile)}

Init ==
    \E part \in Parts :
        \E m \in ManifestsOf(part), s \in SkillsOf(part), r \in FilesOf(part, "rules"),
           c \in FilesOf(part, "commands"), a \in FilesOf(part, "agents") :
            RunInit(Bundle(m, s, r, c, a))

Spec == Init /\ [][Next]_vars

----------------------------------------------------------------------------
(* SpecFM: parseFrontmatter applied to every short file content *)

\* characters of the file contents SpecFM enumerates
FmAlphabet == {"-", LF, "a"}

BoundedSeq(A, n) == UNION {[1..m -> A] : m \in 0..n}

\* the same text saved with Windows line endings
RECURSIVE toCRLF(_)
toCRLF(s) ==
    IF s = <<>> THEN <<>>
    ELSE (IF s[1] = LF THEN <<CR, LF>> ELSE <<s[1]>>) \o toCRLF(Tail(s))

RunIdle ==
    /\ disk = Idle
    /\ pluginJson = Idle
    /\ errors = <<>>
    /\ warnings = <<>>
    /\ out = <<>>
    /\ err = <<>>
    /\ exitCode = NoExit
    /\ fsCalls = <<>>

InitFM ==
    /\ RunIdle
    /\ pc = "parseFrontmatter"
    /\ \E s \in BoundedSeq(FmAlphabet, MaxLen), crlf \in BOOLEAN :
           content = IF crlf THEN toCRLF(s) ELSE s
    /\ block = Idle
    /\ fm = Idle

\* validate.mjs:37-42
FmBlock ==
    /\ pc = "parseFrontmatter"
    /\ block' = frontmatterBlock(content)
    /\ IF block'.found
       THEN pc' = "fields" /\ fm' = fm
       ELSE pc' = "returned" /\ fm' = parseFrontmatter(content)
    /\ UNCHANGED <<runVars, content>>

\* validate.mjs:43-48
FmFields ==
    /\ pc = "fields"
    /\ fm' = parseFrontmatter(content)
    /\ pc' = "returned"
    /\ UNCHANGED <<runVars, content, block>>

NextFM == FmBlock \/ FmFields

SpecFM == InitFM /\ [][NextFM]_vars

----------------------------------------------------------------------------
(* SpecKV: parseFrontmatter applied to files whose frontmatter block has  *)
(* one or two lines, one of them any short line and the other a line of  *)
(* a few.                                                                 *)

\* characters of the lines SpecKV enumerates
KvAlphabet == {"a", "-", ":", " ", CR}

L_proto == K_proto \o <<":", " ", "a">>

\* the lines that go with an enumerated line
OtherLines ==
    {<<"a", ":", "a">>, <<"a", ":", " ", "-", " ">>, <<"a", "-", "a", ":", "a", ":">>,
     L_proto, L_descriptionKey, L_continuation, L_tags}

\* a file with the given lines between the delimiters
WithBlock(lines) == Opening \o Text(lines) \o Dashes \o <<LF>>

InitKV ==
    /\ RunIdle
    /\ pc = "parseFrontmatter"
    /\ \E m \in 0..MaxLineLen : \E l \in [1..m -> KvAlphabet] :
           \/ content = WithBlock(<<l>>)
           \/ \E o \in OtherLines :
                  \/ content = WithBlock(<<o>>)
                  \/ content = WithBlock(<<l, o>>)
                  \/ content = WithBlock(<<o, l>>)
    /\ block = Idle
    /\ fm = Idle

SpecKV == InitKV /\ [][NextFM]_vars

----------------------------------------------------------------------------
(* Vocabulary of the properties *)

Range(q) == {q[i] : i \in DOMAIN q}

ManifestError == Msg(".cursor-plugin/plugin.json is missing or invalid", <<>>, "", <<>>)
SkillsMissing == Msg("skills/ directory is missing", <<>>, "", <<>>)
PatternMsg == "plugin.json name doesn't match pattern"
FieldMsg == "plugin.json missing required field"

SkillMsgs ==
    {"Skill is missing SKILL.md", "Skill SKILL.md is missing frontmatter",
     "Skill SKILL.md missing name in frontmatter",
     "Skill SKILL.md missing description in frontmatter"}

MsgsOf(dir) ==
    CASE dir = "skills" -> SkillMsgs \cup {SkillsMissing.msg}
      [] dir = "rules" -> {"Rule missing description in frontmatter"}
      [] dir = "commands" ->
            {"Command missing frontmatter", "Command missing name in frontmatter",
             "Command missing description in frontmatter"}
      [] dir = "agents" ->
            {"Agent missing frontmatter", "Agent missing name in frontmatter",
             "Agent missing description in frontmatter"}

Optional == {"rules", "commands", "agents"}

\* the errors recorded by the block of a subdirectory, in order
ErrorsOf(dir) == LET P(m) == m.msg \in MsgsOf(dir) IN SelectSeq(errors, P)

\* the errors recorded by the checks of the manifest, in order
ErrorsOfManifest == LET P(m) == m.msg \in {PatternMsg, FieldMsg} IN SelectSeq(errors, P)

\* the manifest file parsed to a manifest object
Parseable == disk.manifest.kind = "json" /\ disk.manifest.value.type = "manifest"

\* the process has ended and no failure reached the top-level handler
EndedQuietly == pc = "exited" /\ err = <<>>

\* the run went through all its checks, up to the report
Completed == Parseable /\ pc \in {"report", "returned", "exited"} /\ err = <<>>

PastManifest == pc \notin {"start", "name", "fields", "logo"}

Calls(op, dir) == {c \in Range(fsCalls) : c.op = op /\ c.dir = dir}

\* the frontmatter of a file read line by line: the first line is ---, a
\* later line is ---, and the block is the lines between the two
ByLines(c) ==
    LET ls == split(replaceCRLF(c))
        later == {j \in 2..Len(ls) : ls[j] = Dashes}
        close == CHOOSE j \in later : \A k \in later : j <= k
    IN  IF ls[1] = Dashes /\ later # {}
        THEN [found |-> TRUE, lines |-> SubSeq(ls, 2, close - 1)]
        ELSE [found |-> FALSE, lines |-> <<>>]

\* the frontmatter of the file has a line that starts with key and a colon
CarriesKey(c, key) ==
    \E i \in 1..Len(ByLines(c).lines) : startsWith(ByLines(c).lines[i], key \o <<":">>)

RequiredKeys(dir) == IF dir = "rules" THEN {K_description} ELSE {K_name, K_description}

\* the entries of a subdirectory that the validator checks
Enumerated(dir) ==
    IF dir = "skills" THEN Range(disk.skills.entries)
    ELSE {e \in Range(disk[dir].entries) :
            \/ endsWith(e.name, ExtMd)
            \/ dir = "rules" /\ endsWith(e.name, ExtMdc)}

----------------------------------------------------------------------------
(* Properties *)

\* C1: a run that ends without an uncaught failure exits with status 1 if
\* at least one error was recorded, whatever the warnings, and with status
\* 0 otherwise; also when the only error is the manifest one.
C1_ExitStatusFollowsErrors ==
    EndedQuietly => exitCode = (IF Len(errors) > 0 THEN 1 ELSE 0)

\* C2: when the manifest is missing, unreadable or not JSON, the run
\* records exactly the manifest error and halts: after readJson nothing
\* else is read, checked or printed, and no warning is recorded.
C2_ManifestFailureHalts ==
    (pc # "start" /\ disk.manifest.kind # "json") =>
        /\ pc \in {"returned", "exited"}
        /\ errors = <<ManifestError>>
        /\ warnings = <<>>
        /\ fsCalls = <<Call("readFile", ".cursor-plugin", <<>>)>>
        /\ out = <<>>
        /\ err = <<>>

C2_Witness ==
    /\ pc = "exited"
    /\ disk.manifest.kind = "SyntaxError"
    /\ errors = <<ManifestError>>
    /\ disk.skills.kind = "dir"

\* the bundle of C3: five manifest fields, a name of the pattern, the four
\* subdirectories populated, every entry a file whose frontmatter carries
\* the required keys, and no logo to look for
ConformantBundle ==
    /\ Parseable
    /\ \A i \in 1..Len(RequiredFields) :
           /\ disk.manifest.value[RequiredFields[i]].type = "string"
           /\ disk.manifest.value[RequiredFields[i]].str # <<>>
    /\ matchesNamePattern(disk.manifest.value.name.str)
    /\ disk.manifest.value.logo = Undefined
    /\ \A dir \in {"skills"} \cup Optional :
           /\ disk[dir].kind = "dir"
           /\ Enumerated(dir) # {}
           /\ \A e \in Enumerated(dir) :
                  /\ e.file = "file"
                  /\ ByLines(e.content).found
                  /\ \A k \in RequiredKeys(dir) : CarriesKey(e.content, k)

\* C3: for a conformant bundle, whose required keys may have their value on
\* the lines after the key, the run records no error and no warning and
\* exits with status 0.
C3_ConformantBundlePasses ==
    (pc = "exited" /\ ConformantBundle) =>
        errors = <<>> /\ warnings = <<>> /\ exitCode = 0

\* the manifest has a name that is not a string of the pattern
BadName ==
    /\ Parseable
    /\ disk.manifest.value.name # Undefined
    /\ ~(/\ disk.manifest.value.name.type = "string"
         /\ matchesNamePattern(disk.manifest.value.name.str))

\* C4: for a manifest whose name is not a string of the pattern, one
\* pattern error is recorded by the name check and the run goes on to the
\* field checks and to the four subdirectories.
C4_BadNameRecorded ==
    (BadName /\ pc \notin {"start", "name"}) =>
        /\ \E i \in 1..Len(errors) : errors[i].msg = PatternMsg
        /\ pc # "fields" => out # <<>>
        /\ PastManifest /\ pc # "skills" => Calls("access", "skills") # {}
        /\ Completed => \A dir \in Optional : Calls("access", dir) # {}

Absent5 == {f \in Range(RequiredFields) : disk.manifest.value[f] = Undefined}

\* every field that is there is one the checks accept
OnlyAbsences ==
    /\ \A f \in Range(RequiredFields) \ Absent5 : truthy(disk.manifest.value[f])
    /\ \/ disk.manifest.value.name = Undefined
       \/ /\ disk.manifest.value.name.type = "string"
          /\ matchesNamePattern(disk.manifest.value.name.str)

\* C5: for a parseable manifest, each required field that is absent gets
\* exactly one error naming it and no other error (an absent name gets no
\* pattern error; a manifest whose only defects are k absent fields gets k
\* manifest errors), and the run goes on to the subdirectories.
C5_AbsentFieldOneError ==
    (Parseable /\ pc \notin {"start", "name", "fields"}) =>
        /\ \A f \in Absent5 :
               Cardinality({i \in 1..Len(errors) :
                               errors[i].msg = FieldMsg /\ errors[i].field = f}) = 1
        /\ "name" \in Absent5 => \A i \in 1..Len(errors) : errors[i].msg # PatternMsg
        /\ OnlyAbsences => Len(ErrorsOfManifest) = Cardinality(Absent5)
        /\ pc = "returned" =>
               \E j \in 1..Len(out) : out[j].line = "Plugin validation passed"
        /\ PastManifest /\ pc # "skills" => Calls("access", "skills") # {}

C5_Witness ==
    /\ pc = "exited"
    /\ Parseable
    /\ Absent5 = {"name"}
    /\ OnlyAbsences
    /\ Len(ErrorsOfManifest) = 1
    /\ Calls("readdir", "skills") # {}

\* C6: with a parseable manifest, an absent skills/ records the one error
\* "skills/ directory is missing"; an absent rules/, commands/ or agents/
\* records no error and no warning and is not listed; and with skills/
\* absent the other three blocks read the entries their filter keeps and
\* record what those entries produce, as with skills/ present.
C6_AbsentDirectories ==
    Completed =>
        /\ disk.skills.kind = "ENOENT" =>
               ErrorsOf("skills") = <<SkillsMissing>> /\ Calls("readdir", "skills") = {}
        /\ \A dir \in Optional :
               disk[dir].kind = "ENOENT" =>
                   /\ ErrorsOf(dir) = <<>>
                   /\ Calls("readdir", dir) = {} /\ Calls("readFile", dir) = {}
        /\ \A i \in 1..Len(warnings) : warnings[i].msg = "Logo file not found"
        /\ \A dir \in Optional :
               disk[dir].kind = "dir" =>
                   /\ {c.name : c \in Calls("readFile", dir)}
                          = {e.name : e \in Enumerated(dir)}
                   /\ Range(ErrorsOf(dir))
                          = UNION {Range(entryErrors(dir, e.name, parseFrontmatter(e.content))) :
                                      e \in Enumerated(dir)}

C6_Witness ==
    /\ pc = "exited"
    /\ Completed
    /\ disk.skills.kind = "ENOENT"
    /\ disk.rules.kind = "dir" /\ Len(ErrorsOf("rules")) > 0
    /\ disk.commands.kind = "ENOENT"
    /\ ErrorsOf("skills") = <<SkillsMissing>>

\* the number of errors the sentence of C7 gives an entry
Claimed(dir, e) ==
    IF dir = "skills" /\ e.file = "ENOENT" THEN 1
    ELSE IF ~ByLines(e.content).found THEN 1
    ELSE Cardinality({k \in RequiredKeys(dir) : ~CarriesKey(e.content, k)})

\* C7: every enumerated entry gets exactly its errors, each naming it: one
\* for a skill without SKILL.md (which is then not read), one for a file
\* without frontmatter, else one per required key that is absent, and none
\* when the required keys are present.
C7_EntryErrors ==
    Completed =>
        \A dir \in {"skills"} \cup Optional :
            disk[dir].kind = "dir" =>
                \A e \in Enumerated(dir) :
                    /\ Cardinality({i \in 1..Len(errors) :
                                       /\ errors[i].msg \in MsgsOf(dir)
                                       /\ errors[i].entry = e.name}) = Claimed(dir, e)
                    /\ dir = "skills" /\ e.file = "ENOENT" =>
                           \A c \in Calls("readFile", dir) : c.name # e.name

\* the call could not be served: the manifest is unreadable, the
\* subdirectory cannot be listed, or the entry is not a file
Failed(c) ==
    \/ c.op = "readFile" /\ c.dir = ".cursor-plugin" /\ disk.manifest.kind = "EACCES"
    \/ c.op = "readdir" /\ disk[c.dir].kind = "ENOTDIR"
    \/ /\ c.op = "readFile"
       /\ c.dir \in {"skills"} \cup Optional
       /\ \E e \in Range(disk[c.dir].entries) : e.name = c.name /\ e.file = "EISDIR"

HandlerReported ==
    /\ err = <<Line("Validation failed:", 0, NoMsg)>>
    /\ exitCode = 1
    /\ \A i \in 1..Len(out) : out[i].line \notin {"Errors", "error"}

\* C8: every failure raised by a file system read of the run reaches the
\* top-level handler: "Validation failed:" is printed, nothing of it is in
\* the Errors block, and the exit status is 1.
C8_EveryFailureHandled ==
    (pc = "exited" /\ \E c \in Range(fsCalls) : Failed(c)) => HandlerReported

\* C8 as amended: a failure of fs.readdir on a subdirectory or of
\* fs.readFile on an entry rejects the run at once, and the top-level
\* handler then prints "Validation failed:", lists no Errors block and
\* exits with status 1.
C8_ListingFailureHandled ==
    (\E c \in Range(fsCalls) : Failed(c) /\ c.dir # ".cursor-plugin") =>
        /\ pc \in {"rejected", "exited"}
        /\ Failed(fsCalls[Len(fsCalls)])
        /\ pc = "exited" => HandlerReported

C8_Witness ==
    /\ pc = "exited"
    /\ HandlerReported
    /\ Len(errors) > 0
    /\ Failed(fsCalls[Len(fsCalls)])
    /\ fsCalls[Len(fsCalls)].op = "readFile"
    /\ fsCalls[Len(fsCalls)].dir = "rules"

\* C9: when a run ends after its checks, every recorded warning is in the
\* Warnings block and every recorded error in the Errors block, each block
\* headed by its count, warnings before errors, and the success line is
\* there only if no error was recorded.
C9_ReportListsEverything ==
    EndedQuietly =>
        /\ \A i \in 1..Len(warnings) :
               \E j \in 1..Len(out) : out[j] = Line("warning", 0, warnings[i])
        /\ \A i \in 1..Len(errors) :
               \E j \in 1..Len(out) : out[j] = Line("error", 0, errors[i])
        /\ Len(warnings) > 0 =>
               \E j \in 1..Len(out) : out[j] = Line("Warnings", Len(warnings), NoMsg)
        /\ Len(errors) > 0 =>
               \E j \in 1..Len(out) : out[j] = Line("Errors", Len(errors), NoMsg)
        /\ \A j, k \in 1..Len(out) :
               out[j].line \in {"Warnings", "warning"} /\ out[k].line \in {"Errors", "error"}
                   => j < k
        /\ (\E j \in 1..Len(out) : out[j].line = "Plugin validation passed")
               => errors = <<>>

\* C10: parseFrontmatter finds frontmatter exactly when the first line of
\* the normalised content is --- and a later line is ---, and the block is
\* then the lines between the two; also when the block is empty and when
\* the closing line ends the file without a line feed.
C10_FrontmatterByLines ==
    block # Idle =>
        /\ block.found = ByLines(content).found
        /\ block.found => split(block.text) = ByLines(content).lines

\* position of the first colon of a line, 0 when it has none
Colon(l) == indexOf(l, <<":">>, 0) + 1

KeyOf(l) == SubSeq(l, 1, Colon(l) - 1)
RestOf(l) == SubSeq(l, Colon(l) + 1, Len(l))

\* the line has the shape key: value, the key made of word characters and
\* hyphens after a first word character, the value the rest of the line
Shaped(l) ==
    /\ Colon(l) >= 2
    /\ Colon(l) < Len(l)
    /\ l[1] \in WordChar
    /\ \A i \in 1..(Colon(l) - 1) : l[i] \in WordChar \cup {"-"}

\* C11: the mapping parseFrontmatter returns has a key exactly when a line
\* of the block has the shape key: value with that key, the value it
\* stores is the trimmed rest of such a line, and the other lines add and
\* change nothing.
C11_KeysOfShapedLines ==
    (fm # Idle /\ fm.found) =>
        LET ls == split(block.text)
            shaped == {i \in 1..Len(ls) : Shaped(ls[i])}
        IN  /\ DOMAIN fm.fields = {KeyOf(ls[i]) : i \in shaped}
            /\ \A k \in DOMAIN fm.fields :
                   \E i \in shaped :
                       KeyOf(ls[i]) = k /\ fm.fields[k] = trim(RestOf(ls[i]))

\* the shaped lines that the code stores: the value holds no carriage
\* return after its leading white space (nor as last character when it is
\* all white space) and the key is not __proto__
Stored(l) ==
    /\ Shaped(l)
    /\ LET value == trimStart(RestOf(l))
       IN  IF value # <<>> THEN \A i \in 1..Len(value) : value[i] # CR
           ELSE RestOf(l)[Len(RestOf(l))] # CR
    /\ KeyOf(l) # K_proto

\* What holds of C11 in the code: the keys are those of the stored lines
\* and each value is the trimmed rest of the last stored line with the key.
KeysOfStoredLines ==
    (fm # Idle /\ fm.found) =>
        LET ls == split(block.text)
            stored == {i \in 1..Len(ls) : Stored(ls[i])}
        IN  /\ DOMAIN fm.fields = {KeyOf(ls[i]) : i \in stored}
            /\ \A i \in stored :
                   (\A j \in stored : KeyOf(ls[j]) = KeyOf(ls[i]) => j <= i)
                       => fm.fields[KeyOf(ls[i])] = trim(RestOf(ls[i]))

====
